---- MODULE Spec2Model ----
(***************************************************************************)
(* Model of TemplateMatcher (src/src/lib.rs): the cache of GPU resources   *)
(* kept across match_template calls, the queue of device work, and the     *)
(* blocking read-back in wait_for_result.                                  *)
(***************************************************************************)
EXTENDS Integers, Sequences, FiniteSets, TLC

\* ------------------------------------------------------------------ bounds
MaxW == 2
MaxH == 1
MaxSeed == 2
\* u32 arithmetic is carried out on words of WordBits bits, so that products
\* of two words stay within TLC's integers; wrap-around keeps its shape.
WordBits == 15
\* find_extremes is applied to surfaces of at most MaxSurfaceW x MaxSurfaceH
\* samples; the finite f32 values are the integers -MaxFinite..MaxFinite.
MaxSurfaceW == 2
MaxSurfaceH == 2
MaxFinite == 2
\* result sizes handed to the grid computation: 0..MaxOffset above 0 and above
\* each of the powers of two in GridBases
MaxOffset == 17

\* ------------------------------------------------------- program constants
U32 == 2 ^ WordBits
WorkgroupSize == 16
NoBuffer == 0
UniformId == 0

Methods == {"SumOfAbsoluteDifferences", "SumOfSquaredDifferences"}
NoMethod == "None"
NoPipeline == "none"
NoBindGroup == [b0 |-> 0, b1 |-> 0, b2 |-> 0, b3 |-> 0]
None == [some |-> FALSE]

\* ------------------------------------------------------------------ images
\* Image::new: a dense row-major sample sequence tagged with width and height.
Image(data, width, height) == [data |-> data, width |-> width, height |-> height]

\* The sample patterns callers pass in (values 0, 2, 4): seed s gives the
\* input one pattern and the template another.
Samples(seed, n) == [i \in 1..n |-> 2 * ((seed + i) % 3)]

TemplateSamples(seed, n) == [i \in 1..n |-> 2 * ((2 * seed + i) % 3)]

\* The (input, template) pairs callers pass to match_template: the template
\* fits inside the input (the precondition of lines 381-382).
Calls ==
    {<<Image(Samples(s, iw * ih), iw, ih), Image(TemplateSamples(s, tw * th), tw, th)>> :
        <<s, iw, ih, tw, th>> \in
            {c \in (1..MaxSeed) \X (1..MaxW) \X (1..MaxH) \X (1..MaxW) \X (1..MaxH) :
                c[4] <= c[2] /\ c[5] <= c[3]}}

\* The pairs that break that precondition: the template is larger than the
\* input in width or in height.
UnfitCalls ==
    {<<Image(Samples(s, iw * ih), iw, ih), Image(TemplateSamples(s, tw * th), tw, th)>> :
        <<s, iw, ih, tw, th>> \in
            {c \in (1..MaxSeed) \X (1..MaxW) \X (1..MaxH) \X (1..MaxW) \X (1..MaxH) :
                c[4] > c[2] \/ c[5] > c[3]}}

Zeros(n) == [i \in 1..n |-> 0]

Abs(x) == IF x < 0 THEN -x ELSE x

Min(S) == CHOOSE x \in S : \A y \in S : x <= y

RECURSIVE SumOver(_, _)
SumOver(f, S) ==
    IF S = {} THEN 0
    ELSE LET x == CHOOSE y \in S : TRUE IN f[x] + SumOver(f, S \ {x})

\* ------------------------------------------------------------- the kernel
\* Score of one template cell under a method.
Score(method_entry, a, b) ==
    IF method_entry = "main_sad" THEN Abs(a - b) ELSE (a - b) * (a - b)

\* A read of a storage buffer; an index outside the buffer yields either 0 or
\* the value of the last element, whichever the device picks (oob).
Load(buf, idx, oob) ==
    IF idx < Len(buf) THEN buf[idx + 1]
    ELSE IF oob = "zero" \/ Len(buf) = 0 THEN 0 ELSE buf[Len(buf)]

OobModes == {"zero", "clamp"}

\* One invocation of the kernel at output coordinate (x, y): addressing is
\* computed from the four integers of the uniform buffer.
KernelAt(entry, input, template, u, x, y, oob) ==
    LET cells == {<<i, j>> \in (0..(u[3] - 1)) \X (0..(u[4] - 1)) : TRUE}
        f == [c \in cells |->
                Score(entry,
                      Load(input, (y + c[2]) * u[1] + (x + c[1]), oob),
                      Load(template, c[2] * u[3] + c[1], oob))]
    IN SumOver(f, cells)

\* The contents of the result buffer after a compute pass over a grid of
\* gx by gy workgroups: every invocation inside the uniform-derived result
\* rectangle stores its score at y * result_width + x (an invocation with
\* x >= result_width must not store, or it would overwrite the next row); a
\* store outside the buffer is dropped and the other elements keep their
\* old value.
RunKernel(entry, input, template, result, u, gx, gy, oob) ==
    LET rw == u[1] - u[3] + 1
        rh == u[2] - u[4] + 1
    IN [k \in 1..Len(result) |->
          IF rw <= 0 \/ rh <= 0 THEN result[k]
          ELSE LET x == (k - 1) % rw
                   y == (k - 1) \div rw
               IN IF y < rh /\ x < gx * WorkgroupSize /\ y < gy * WorkgroupSize
                  THEN KernelAt(entry, input, template, u, x, y, oob)
                  ELSE result[k]]

\* ---------------------------------------------------------- host arithmetic
\* u32 -> f32: round to nearest, ties to even, on a 24-bit significand.
RECURSIVE Pow2Above(_, _)
Pow2Above(n, p) == IF p * 2 > n THEN p ELSE Pow2Above(n, p * 2)

AsF32(n) ==
    IF n < 16777216 THEN n
    ELSE LET ulp == Pow2Above(n, 1) \div 8388608
             lo == (n \div ulp) * ulp
             r == n - lo
         IN IF 2 * r < ulp THEN lo
            ELSE IF 2 * r > ulp THEN lo + ulp
            ELSE IF (lo \div ulp) % 2 = 0 THEN lo ELSE lo + ulp

\* (n as f32 / 16.0).ceil() as u32: the division by a power of two and the
\* ceil are exact on the converted value, and the quotient of a 32-bit value
\* is below 2^32, so the cast back does not saturate.
WorkgroupCount(n) ==
    LET f == AsF32(n)
    IN (f + WorkgroupSize - 1) \div WorkgroupSize

ResultDim_NoPlusOne(i, t) == (i - t) % U32

\* input - template + 1 in u32
ResultDim(i, t) == (i - t + 1) % U32

\* (result_width * result_height) in u32: the element count of the result
ResultLen(rw, rh) == (rw * rh) % U32

EntryPoint(method) ==
    IF method = "SumOfAbsoluteDifferences" THEN "main_sad" ELSE "main_ssd"

\* ------------------------------------------------------------------- state
\* line 383: the u32 element count widened to u64 and scaled by the sample
\* size
SizeOfF32 == 4
ResultBufSize(result_width, result_height) ==
    ResultLen(result_width, result_height) * SizeOfF32

\* the u32 product at lines 286 and 383 exceeds the word
MulOverflows(a, b) == a * b >= U32

\* result sizes whose product stays within a word, and sizes whose product
\* does not
SizeBases == {1, 2 ^ (WordBits \div 2), 2 ^ (WordBits - 1)}
ResultSizes == {b + d : b \in SizeBases, d \in 0..MaxOffset}

\* lines 440-444: the grid of one dispatch
WorkgroupGrid(result_width, result_height) ==
    <<WorkgroupCount(result_width), WorkgroupCount(result_height), 1>>

\* result sizes below and above the 24-bit significand of f32
GridBases == {0, 2 ^ 24, 2 ^ 26, 2 ^ 28}
GridSizes == {b + d : b \in GridBases, d \in 0..MaxOffset}

\* ------------------------------------------------------------ find_extremes
\* f32 values on an integer scale: every finite value lies between F32_MIN and
\* F32_MAX, the infinities lie beyond them.
F32_MAX == MaxFinite
F32_MIN == -MaxFinite
F32_INFINITY == MaxFinite + 1

\* the surfaces find_extremes is applied to
SurfaceSamples == {-F32_INFINITY, 0, F32_MAX, F32_INFINITY}
Surfaces(width, height) ==
    {Image(d, width, height) : d \in [1..(width * height) -> SurfaceSamples]}

\* lines 47 and 52: the comparison that replaces a running extreme
LessThan(a, b) == a < b

\* lines 44-55: the loop body at scan position (x, y)
ScanStep(e, input, x, y) ==
    LET idx == (y * input.width) + x
        value == input.data[idx + 1]
        lo == LessThan(value, e.min_value)
        hi == LessThan(e.max_value, value)
    IN [min_value |-> IF lo THEN value ELSE e.min_value,
        min_value_location |-> IF lo THEN <<x, y>> ELSE e.min_value_location,
        max_value |-> IF hi THEN value ELSE e.max_value,
        max_value_location |-> IF hi THEN <<x, y>> ELSE e.max_value_location]

\* lines 43-56: y outer, x inner; k counts the positions already visited
RECURSIVE ScanFrom(_, _, _)
ScanFrom(e, input, k) ==
    IF k >= input.width * input.height THEN e
    ELSE ScanFrom(ScanStep(e, input, k % input.width, k \div input.width),
                  input, k + 1)

\* lines 38-66
find_extremes(input) ==
    ScanFrom([min_value |-> F32_MAX, min_value_location |-> <<0, 0>>,
              max_value |-> F32_MIN, max_value_location |-> <<0, 0>>],
             input, 0)

VARIABLES
    \* TemplateMatcher fields
    last_pipeline,       \* entry point of the cached pipeline, or NoPipeline
    last_method,
    last_input_size, last_template_size, last_result_size,
    uniform_buffer,      \* contents of the uniform buffer on the device
    input_buffer, template_buffer, result_buffer, staging_buffer,  \* handles
    bind_group, matching_ongoing,
    \* the device
    mem,                 \* contents of every live storage buffer, by handle
    queue,               \* commands handed to the queue and not yet executed
    map_state,           \* mapping of the staging buffer
    \* the host thread
    pc,                  \* "idle" | "poll" (inside device.poll) | "in_match"
    pending,             \* a match_template is discarding the previous result
    wait_size,           \* (result_width, result_height) read at line 269
    \* history
    ret,                 \* what wait_for_result returned since the last dispatch
    call,                \* the arguments of the last match_template
    outstanding,         \* calls dispatched and neither retrieved nor discarded
    last_pass,           \* what the compute pass of the last call saw and wrote
    dims_stable,         \* every call so far had the dimensions of the first
    created,             \* objects the step just taken created
    last_op,
    \* a call of a free function, outside any matcher
    fn_arg,              \* its argument
    fn_ret,              \* what it returned, NotCalled before the call
    \* the build
    overflow_checks      \* integer overflow panics (TRUE) or wraps (FALSE)

fields == <<last_pipeline, last_method, last_input_size, last_template_size,
            last_result_size, input_buffer, template_buffer, result_buffer,
            staging_buffer, bind_group, matching_ongoing>>
device == <<uniform_buffer, mem, queue, map_state>>
host == <<pc, pending, wait_size>>
history == <<ret, call, outstanding, last_pass, dims_stable, created, last_op>>
free_fn == <<fn_arg, fn_ret>>
build == <<overflow_checks>>
vars == <<fields, device, host, history, free_fn, build>>

NoCall == [some |-> FALSE]
NoPass == [some |-> FALSE]
NotCalled == [some |-> FALSE]

\* TemplateMatcher::new
New ==
    /\ last_pipeline = NoPipeline
    /\ last_method = NoMethod
    /\ last_input_size = <<0, 0>>
    /\ last_template_size = <<0, 0>>
    /\ last_result_size = <<0, 0>>
    /\ uniform_buffer = <<0, 0, 0, 0>>
    /\ input_buffer = NoBuffer
    /\ template_buffer = NoBuffer
    /\ result_buffer = NoBuffer
    /\ staging_buffer = NoBuffer
    /\ bind_group = NoBindGroup
    /\ matching_ongoing = FALSE
    /\ mem = [b \in {} |-> <<>>]
    /\ queue = <<>>
    /\ map_state = "unmapped"
    /\ pc = "idle"
    /\ pending = FALSE
    /\ wait_size = <<0, 0>>
    /\ ret = None
    /\ call = NoCall
    /\ outstanding = <<>>
    /\ last_pass = NoPass
    /\ dims_stable = TRUE
    /\ created = {}
    /\ last_op = "new"

\* No subtraction or product of a call whose template fits overflows within
\* the bounds, so such calls run alike in every build; one build is explored.
Init ==
    /\ New
    /\ fn_arg = NotCalled
    /\ fn_ret = NotCalled
    /\ overflow_checks = FALSE

\* ----------------------------------------------------------- resource ids
\* Handles referenced by one queued command.
CmdIds(c) ==
    IF c.op = "write" THEN {c.buf}
    ELSE IF c.op = "write_uniform" THEN {}
    ELSE IF c.op = "compute"
         THEN {c.bind_group.b0, c.bind_group.b1, c.bind_group.b2}
    ELSE {c.src, c.dst}

QueueIds == UNION {CmdIds(queue[k]) : k \in 1..Len(queue)}

\* Handles held by the matcher, by its bind group, or by queued commands.
LiveIds ==
    ({input_buffer, template_buffer, result_buffer, staging_buffer,
      bind_group.b0, bind_group.b1, bind_group.b2} \cup QueueIds) \ {NoBuffer}

\* device.create_buffer*: a handle no live object has.
FreshId(used) == Min({i \in 1..(Cardinality(used) + 1) : i \notin used})

\* Handles are opaque, so after a call they are renumbered: the matcher's
\* input, template, result and staging buffers are 1, 2, 3, 4 and any other
\* buffer still referenced follows in order.
Renumber(b, in_id, tm_id, res_id, st_id, others) ==
    IF b = NoBuffer THEN NoBuffer
    ELSE IF b = in_id THEN 1
    ELSE IF b = tm_id THEN 2
    ELSE IF b = res_id THEN 3
    ELSE IF b = st_id THEN 4
    ELSE 5 + Cardinality({o \in others : o < b})

\* queue.write_buffer(buf, 0, data) as executed by the device.
Overwrite(old, data) ==
    [k \in 1..Len(old) |-> IF k <= Len(data) THEN data[k] ELSE old[k]]

Dims(input, template) ==
    <<input.width, input.height, template.width, template.height>>

\* ------------------------------------------------ match_template, the body
DiscardNeeded_Never == FALSE

DiscardNeeded_Always == TRUE

\* line 301: a previous result was not collected
DiscardNeeded == matching_ongoing

NeedPipeline_OnlyIfAbsent(method) == last_pipeline = NoPipeline

\* line 309
NeedPipeline(method) == last_pipeline = NoPipeline \/ last_method # method

InputChanged_OnlyIfAbsent(input_size) == input_buffer = NoBuffer

\* line 330
InputChanged(input_size) ==
    input_buffer = NoBuffer \/ last_input_size # input_size

TemplateChanged_OnlyIfAbsent(template_size) == template_buffer = NoBuffer

\* line 351
TemplateChanged(template_size) ==
    template_buffer = NoBuffer \/ last_template_size # template_size

\* lines 351-361: the uniform buffer is written inside the template branch
UniformWritten(input_changed, template_changed) == template_changed

BuffersChanged_InputOnly(input_changed, template_changed) == input_changed

BuffersChanged_TemplateOnly(input_changed, template_changed) == template_changed

\* lines 327, 331, 362, 385
BuffersChanged(input_changed, template_changed) ==
    input_changed \/ template_changed

Upload_Skipped(changed, buf, data) == <<>>

\* lines 343-347 and 374-378: the upload into a reused buffer
Upload(changed, buf, data) ==
    IF changed THEN <<>> ELSE <<[op |-> "write", buf |-> buf, data |-> data]>>

\* lines 352-361
UniformUpload(written, input, template) ==
    IF written
    THEN <<[op |-> "write_uniform", buf |-> NoBuffer,
            data |-> Dims(input, template)]>>
    ELSE <<>>

OngoingAfterSubmit_Forgotten == FALSE

\* line 456
OngoingAfterSubmit == TRUE

\* Buffers created by a call, with their initial contents (lines 335-341,
\* 366-372, 388-402).
Made(changed, ids, input, template, result_len) ==
    [b \in ((IF changed[1] THEN {ids[1]} ELSE {})
            \cup (IF changed[2] THEN {ids[2]} ELSE {})
            \cup (IF changed[3] THEN {ids[3], ids[4]} ELSE {})) |->
        IF changed[1] /\ b = ids[1] THEN input.data
        ELSE IF changed[2] /\ b = ids[2] THEN template.data
        ELSE Zeros(result_len)]

RenumberBind(g, r) == [b0 |-> r[g.b0], b1 |-> r[g.b1], b2 |-> r[g.b2], b3 |-> g.b3]

RenumberCmd(c, r) ==
    IF c.op = "write" THEN [c EXCEPT !.buf = r[@]]
    ELSE IF c.op = "write_uniform" THEN c
    ELSE IF c.op = "compute" THEN [c EXCEPT !.bind_group = RenumberBind(@, r)]
    ELSE [c EXCEPT !.src = r[@], !.dst = r[@]]

\* lines 306-456
Body(input, template, method) ==
    \E need_pipeline \in {NeedPipeline(method)},
       input_changed \in {InputChanged(<<input.width, input.height>>)},
       template_changed \in {TemplateChanged(<<template.width, template.height>>)},
       live \in {LiveIds},
       result_width \in {ResultDim(input.width, template.width)},
       result_height \in {ResultDim(input.height, template.height)} :
    \E buffers_changed \in {BuffersChanged(input_changed, template_changed)},
       in_id \in {IF input_changed THEN FreshId(live) ELSE input_buffer},
       result_len \in {ResultLen(result_width, result_height)} :
    \E tm_id \in {IF template_changed THEN FreshId(live \cup {in_id})
                  ELSE template_buffer} :
    \E res_id \in {IF buffers_changed THEN FreshId(live \cup {in_id, tm_id})
                   ELSE result_buffer} :
    \E st_id \in {IF buffers_changed
                  THEN FreshId(live \cup {in_id, tm_id, res_id})
                  ELSE staging_buffer} :
    \E pipeline \in {IF need_pipeline THEN EntryPoint(method) ELSE last_pipeline},
       bg \in {IF buffers_changed
               THEN [b0 |-> in_id, b1 |-> tm_id, b2 |-> res_id, b3 |-> UniformId]
               ELSE bind_group},
       this \in {[some |-> TRUE, input |-> input, template |-> template,
                  method |-> method,
                  \* the call discarded an uncollected result
                  discarded |-> pending,
                  \* same dimensions as the call before, other samples
                  resampled |-> IF call.some
                                THEN /\ Dims(input, template)
                                          = Dims(call.input, call.template)
                                     /\ <<input.data, template.data>>
                                          # <<call.input.data, call.template.data>>
                                ELSE FALSE]} :
    \E all \in {queue
                \o Upload(input_changed, input_buffer, input.data)
                \o UniformUpload(UniformWritten(input_changed, template_changed),
                                 input, template)
                \o Upload(template_changed, template_buffer, template.data)
                \o <<[op |-> "compute", pipeline |-> pipeline, bind_group |-> bg,
                      gx |-> WorkgroupCount(result_width),
                      gy |-> WorkgroupCount(result_height), call |-> this],
                     [op |-> "copy", src |-> res_id, dst |-> st_id,
                      len |-> result_len, call |-> this]>>},
       made \in {Made(<<input_changed, template_changed, buffers_changed>>,
                      <<in_id, tm_id, res_id, st_id>>, input, template,
                      result_len)} :
    \E kept \in {({in_id, tm_id, res_id, st_id, bg.b0, bg.b1, bg.b2}
                    \cup UNION {CmdIds(all[k]) : k \in 1..Len(all)})
                 \ {NoBuffer}} :
    \E r \in {[b \in kept \cup {NoBuffer} |->
                 Renumber(b, in_id, tm_id, res_id, st_id,
                          kept \ {in_id, tm_id, res_id, st_id})]} :
       /\ last_pipeline' = pipeline
       /\ last_method' = IF need_pipeline THEN method ELSE last_method
       /\ last_input_size' = IF input_changed THEN <<input.width, input.height>>
                             ELSE last_input_size
       /\ input_buffer' = r[in_id]
       /\ last_template_size' =
             IF template_changed THEN <<template.width, template.height>>
             ELSE last_template_size
       /\ template_buffer' = r[tm_id]
       /\ last_result_size' =
             IF buffers_changed THEN <<result_width, result_height>>
             ELSE last_result_size
       /\ result_buffer' = r[res_id]
       /\ staging_buffer' = r[st_id]
       /\ bind_group' = RenumberBind(bg, r)
       /\ mem' = [n \in {r[b] : b \in kept} |->
                    LET b == CHOOSE x \in kept : r[x] = n
                    IN IF b \in DOMAIN made THEN made[b] ELSE mem[b]]
       /\ queue' = [k \in 1..Len(all) |-> RenumberCmd(all[k], r)]
       /\ matching_ongoing' = OngoingAfterSubmit
       /\ call' = this
       /\ outstanding' = Append(outstanding, this)
       /\ dims_stable' =
             (dims_stable /\ (call.some =>
                 Dims(input, template) = Dims(call.input, call.template)))
       /\ created' = (IF need_pipeline THEN {"pipeline"} ELSE {})
                     \cup (IF input_changed THEN {"input_buffer"} ELSE {})
                     \cup (IF template_changed THEN {"template_buffer"} ELSE {})
                     \cup (IF buffers_changed
                           THEN {"result_buffer", "staging_buffer", "bind_group"}
                           ELSE {})
       /\ ret' = None
       /\ last_pass' = NoPass
       /\ UNCHANGED <<uniform_buffer, map_state, wait_size>>

\* ---------------------------------------------------------- wait_for_result
\* lines 267-275: clear the flag, read the result size, request the mapping,
\* and enter device.poll(Wait).
BeginWait ==
    /\ matching_ongoing' = FALSE
    /\ wait_size' = last_result_size
    /\ map_state' = IF map_state = "unmapped" THEN "requested" ELSE "failed"
    /\ pc' = "poll"
    /\ outstanding' = <<>>
    /\ created' = {}

Fallback_HeightOnly(result_width, result_height) == Zeros(result_height)

\* line 286
Fallback(result_width, result_height) ==
    Zeros(ResultLen(result_width, result_height))

\* lines 263-275, called by the user
WaitForResult ==
    /\ UNCHANGED <<free_fn, build>>
    /\ pc = "idle"
    /\ IF ~matching_ongoing
       THEN /\ ret' = None
            /\ last_op' = "wait_none"
            /\ created' = {}
            /\ UNCHANGED <<fields, device, host, call, outstanding, last_pass,
                           dims_stable>>
       ELSE /\ BeginWait
            /\ last_op' = "wait_begin"
            /\ UNCHANGED <<last_pipeline, last_method, last_input_size,
                           last_template_size, last_result_size, input_buffer,
                           template_buffer, result_buffer, staging_buffer,
                           bind_group, uniform_buffer, mem, queue, pending, ret,
                           call, last_pass, dims_stable>>

Unmap_Skipped(state) == state

\* line 284 after a successful mapping; a failed mapping leaves the buffer
\* unmapped
Unmap(state) == "unmapped"

MappingResolved_Always == TRUE

\* lines 275-280: device.poll(Wait) has returned and the callback has put its
\* verdict into the channel
MappingResolved == map_state \in {"mapped", "failed"}

\* lines 277-290: the callback has fired; build the surface and return it.
WaitForResultReturn ==
    /\ UNCHANGED <<free_fn, build>>
    /\ pc = "poll"
    /\ MappingResolved
    /\ LET data == IF map_state = "mapped" THEN mem[staging_buffer]
                   ELSE Fallback(wait_size[1], wait_size[2])
           image == Image(data, wait_size[1], wait_size[2])
       IN IF pending
          THEN /\ pc' = "in_match"
               /\ ret' = ret
               /\ last_op' = "discard_return"
          ELSE /\ pc' = "idle"
               /\ ret' = [some |-> TRUE, image |-> image,
                          map_ok |-> (map_state = "mapped"), call |-> call]
               /\ last_op' = "wait_return"
    /\ map_state' = Unmap(map_state)
    /\ wait_size' = <<0, 0>>
    /\ created' = {}
    /\ UNCHANGED <<fields, uniform_buffer, mem, queue, pending, call,
                   outstanding, last_pass, dims_stable>>

\* ------------------------------------------------------------ match_template
\* lines 295-457 when nothing is outstanding
MatchTemplate(input, template, method) ==
    /\ UNCHANGED <<free_fn, build>>
    /\ pc = "idle"
    /\ ~DiscardNeeded
    /\ Body(input, template, method)
    /\ last_op' = "match_template"
    /\ UNCHANGED <<pc, pending>>

\* lines 301-304: the previous result is retrieved and dropped first; the
\* arguments are not looked at before line 306.
MatchTemplateDiscard ==
    /\ UNCHANGED <<free_fn, build>>
    /\ pc = "idle"
    /\ DiscardNeeded
    /\ BeginWait
    /\ pending' = TRUE
    /\ last_op' = "discard_begin"
    /\ UNCHANGED <<last_pipeline, last_method, last_input_size,
                   last_template_size, last_result_size, input_buffer,
                   template_buffer, result_buffer, staging_buffer, bind_group,
                   uniform_buffer, mem, queue, ret, call, last_pass, dims_stable>>

\* lines 306-456 after the discarded retrieval has returned
MatchTemplateResume(input, template, method) ==
    /\ UNCHANGED <<free_fn, build>>
    /\ pc = "in_match"
    /\ Body(input, template, method)
    /\ pc' = "idle"
    /\ pending' = FALSE
    /\ last_op' = "match_template"

\* ------------------------------------------------------------------ device
\* The device executes the oldest queued command.
DeviceStep ==
    /\ UNCHANGED <<free_fn, build>>
    /\ queue # <<>>
    /\ LET c == Head(queue)
       IN /\ queue' = Tail(queue)
          /\ IF c.op = "write_uniform"
             THEN /\ uniform_buffer' = c.data
                  /\ UNCHANGED <<mem, last_pass>>
             ELSE IF c.op = "write"
             THEN /\ mem' = [mem EXCEPT ![c.buf] = Overwrite(@, c.data)]
                  /\ UNCHANGED <<uniform_buffer, last_pass>>
             ELSE IF c.op = "compute"
             THEN \E oob \in OobModes :
                    LET bg == c.bind_group
                        out == RunKernel(c.pipeline, mem[bg.b0], mem[bg.b1],
                                         mem[bg.b2], uniform_buffer,
                                         c.gx, c.gy, oob)
                    IN /\ mem' = [mem EXCEPT ![bg.b2] = out]
                       /\ last_pass' = [some |-> TRUE, call |-> c.call,
                                        uniforms |-> uniform_buffer,
                                        input |-> mem[bg.b0],
                                        template |-> mem[bg.b1],
                                        entry_point |-> c.pipeline,
                                        output |-> out]
                       /\ uniform_buffer' = uniform_buffer
             ELSE /\ mem' = [mem EXCEPT ![c.dst] =
                               Overwrite(@, SubSeq(mem[c.src], 1, c.len))]
                  /\ UNCHANGED <<uniform_buffer, last_pass>>
    /\ last_op' = "device"
    /\ created' = {}
    /\ UNCHANGED <<fields, map_state, host, ret, call, outstanding, dims_stable>>

\* The mapping request resolves once all submitted work is done; the callback
\* runs inside device.poll and reports success or failure.
DeviceMapCallback(ok) ==
    /\ UNCHANGED <<free_fn, build>>
    /\ pc = "poll"
    /\ map_state = "requested"
    /\ queue = <<>>
    /\ map_state' = IF ok THEN "mapped" ELSE "failed"
    /\ last_op' = "callback"
    /\ created' = {}
    /\ UNCHANGED <<fields, uniform_buffer, mem, queue, host, ret, call,
                   outstanding, last_pass, dims_stable>>

Next ==
    \/ \E c \in Calls, method \in Methods : MatchTemplate(c[1], c[2], method)
    \/ \E c \in Calls, method \in Methods : MatchTemplateResume(c[1], c[2], method)
    \/ MatchTemplateDiscard
    \/ WaitForResult
    \/ WaitForResultReturn
    \/ DeviceStep
    \/ \E ok \in BOOLEAN : DeviceMapCallback(ok)

Spec == Init /\ [][Next]_vars

\* The device keeps executing queued work and resolves every mapping request
\* it was given; the host thread resumes when device.poll returns.
DeviceMapCallbackAny == \E ok \in BOOLEAN : DeviceMapCallback(ok)

FairSpec ==
    /\ Spec
    /\ WF_vars(DeviceStep)
    /\ WF_vars(DeviceMapCallbackAny)
    /\ WF_vars(WaitForResultReturn)

\* ------------------------------------------- calls whose template is too big
\* lines 306-381 in a build with overflow checks: the pipeline, the input
\* buffer, the template buffer and the uniforms are brought up to date, then
\* the subtraction at line 381 or 382 panics and the call unwinds; nothing
\* of lines 383-456 happens.
PanicAtSubtraction(input, template, method) ==
    \E need_pipeline \in {NeedPipeline(method)},
       input_changed \in {InputChanged(<<input.width, input.height>>)},
       template_changed \in {TemplateChanged(<<template.width, template.height>>)},
       live \in {LiveIds} :
    \E in_id \in {IF input_changed THEN FreshId(live) ELSE input_buffer} :
    \E tm_id \in {IF template_changed THEN FreshId(live \cup {in_id})
                  ELSE template_buffer} :
    \E all \in {queue
                \o Upload(input_changed, input_buffer, input.data)
                \o UniformUpload(UniformWritten(input_changed, template_changed),
                                 input, template)
                \o Upload(template_changed, template_buffer, template.data)},
       made \in {Made(<<input_changed, template_changed, FALSE>>,
                      <<in_id, tm_id, result_buffer, staging_buffer>>,
                      input, template, 0)} :
    \E kept \in {({in_id, tm_id, result_buffer, staging_buffer,
                    bind_group.b0, bind_group.b1, bind_group.b2}
                    \cup UNION {CmdIds(all[k]) : k \in 1..Len(all)})
                 \ {NoBuffer}} :
    \E r \in {[b \in kept \cup {NoBuffer} |->
                 Renumber(b, in_id, tm_id, result_buffer, staging_buffer,
                          kept \ {in_id, tm_id, result_buffer, staging_buffer})]} :
       /\ last_pipeline' = IF need_pipeline THEN EntryPoint(method)
                            ELSE last_pipeline
       /\ last_method' = IF need_pipeline THEN method ELSE last_method
       /\ last_input_size' = IF input_changed THEN <<input.width, input.height>>
                             ELSE last_input_size
       /\ input_buffer' = r[in_id]
       /\ last_template_size' =
             IF template_changed THEN <<template.width, template.height>>
             ELSE last_template_size
       /\ template_buffer' = r[tm_id]
       /\ result_buffer' = r[result_buffer]
       /\ staging_buffer' = r[staging_buffer]
       /\ bind_group' = RenumberBind(bind_group, r)
       /\ mem' = [n \in {r[b] : b \in kept} |->
                    LET b == CHOOSE x \in kept : r[x] = n
                    IN IF b \in DOMAIN made THEN made[b] ELSE mem[b]]
       /\ queue' = [k \in 1..Len(all) |-> RenumberCmd(all[k], r)]
       /\ call' = [some |-> TRUE, input |-> input, template |-> template,
                   method |-> method, discarded |-> pending,
                   resampled |-> FALSE]
       /\ dims_stable' =
             (dims_stable /\ (call.some =>
                 Dims(input, template) = Dims(call.input, call.template)))
       /\ created' = (IF need_pipeline THEN {"pipeline"} ELSE {})
                     \cup (IF input_changed THEN {"input_buffer"} ELSE {})
                     \cup (IF template_changed THEN {"template_buffer"} ELSE {})
       /\ ret' = None
       /\ last_pass' = NoPass
       /\ last_op' = "match_template_panic"
       /\ UNCHANGED <<last_result_size, matching_ongoing, uniform_buffer,
                      map_state, wait_size, outstanding>>

\* lines 306-456 on a template that does not fit. With overflow checks the
\* subtraction panics; without them it wraps and the call goes on with the
\* wrapped result size.
UncheckedBody(input, template, method) ==
    IF overflow_checks
    THEN PanicAtSubtraction(input, template, method)
    ELSE /\ Body(input, template, method)
         /\ last_op' = "match_template"

\* A caller that caught the panic calls again only after the device has
\* applied the writes the failed call queued, which keeps the queue bounded.
MatchTemplateUnfit(input, template, method) ==
    /\ UNCHANGED <<free_fn, build>>
    /\ pc = "idle"
    /\ ~DiscardNeeded
    /\ queue = <<>>
    /\ UncheckedBody(input, template, method)
    /\ UNCHANGED <<pc, pending>>

MatchTemplateResumeUnfit(input, template, method) ==
    /\ UNCHANGED <<free_fn, build>>
    /\ pc = "in_match"
    /\ UncheckedBody(input, template, method)
    /\ pc' = "idle"
    /\ pending' = FALSE

UncheckedNext ==
    \/ Next
    \/ \E c \in UnfitCalls, method \in Methods :
          MatchTemplateUnfit(c[1], c[2], method)
    \/ \E c \in UnfitCalls, method \in Methods :
          MatchTemplateResumeUnfit(c[1], c[2], method)

UncheckedInit ==
    /\ New
    /\ fn_arg = NotCalled
    /\ fn_ret = NotCalled
    /\ overflow_checks \in BOOLEAN

UncheckedSpec == UncheckedInit /\ [][UncheckedNext]_vars

\* ------------------------------------------------- find_extremes on its own
ExtremesInit ==
    /\ New
    /\ overflow_checks = FALSE
    /\ \E width \in 1..MaxSurfaceW, height \in 1..MaxSurfaceH :
          fn_arg \in Surfaces(width, height)
    /\ fn_ret = NotCalled

FindExtremes ==
    /\ ~fn_ret.some
    /\ fn_ret' = [some |-> TRUE, extremes |-> find_extremes(fn_arg)]
    /\ UNCHANGED <<fields, device, host, history, fn_arg, build>>

ExtremesNext == FindExtremes

ExtremesSpec == ExtremesInit /\ [][ExtremesNext]_vars

\* --------------------------------------------- the workgroup grid on its own
GridInit ==
    /\ New
    /\ overflow_checks = FALSE
    /\ fn_arg \in GridSizes \X GridSizes
    /\ fn_ret = NotCalled

DispatchWorkgroups ==
    /\ ~fn_ret.some
    /\ fn_ret' = [some |-> TRUE, grid |-> WorkgroupGrid(fn_arg[1], fn_arg[2])]
    /\ UNCHANGED <<fields, device, host, history, fn_arg, build>>

GridNext == DispatchWorkgroups

GridSpec == GridInit /\ [][GridNext]_vars

\* ------------------------------------------------- the size arithmetic alone
SizeInit ==
    /\ New
    /\ overflow_checks \in BOOLEAN
    /\ fn_arg \in ResultSizes \X ResultSizes
    /\ fn_ret = NotCalled

\* lines 383 and 286 on one result size. A build with overflow checks panics
\* on a product that exceeds the word, a build without them wraps.
ComputeSizes ==
    /\ ~fn_ret.some
    /\ fn_ret' =
          IF overflow_checks /\ MulOverflows(fn_arg[1], fn_arg[2])
          THEN [some |-> TRUE, panicked |-> TRUE]
          ELSE [some |-> TRUE, panicked |-> FALSE,
                result_buf_size |-> ResultBufSize(fn_arg[1], fn_arg[2]),
                fallback_len |-> ResultLen(fn_arg[1], fn_arg[2])]
    /\ UNCHANGED <<fields, device, host, history, fn_arg, build>>

SizeNext == ComputeSizes

SizeSpec == SizeInit /\ [][SizeNext]_vars

\* ------------------------------------------------------------- references
\* What a freshly constructed matcher returns for a call: the kernel run on
\* the call's own samples and dimensions into a zeroed result buffer, or the
\* zero surface when the mapping fails.
FreshImage(c, map_ok) ==
    LET rw == c.input.width - c.template.width + 1
        rh == c.input.height - c.template.height + 1
        data == IF map_ok
                THEN RunKernel(IF c.method = "SumOfAbsoluteDifferences"
                               THEN "main_sad" ELSE "main_ssd",
                               c.input.data, c.template.data, Zeros(rw * rh),
                               Dims(c.input, c.template),
                               (rw + 15) \div 16, (rh + 15) \div 16, "zero")
                ELSE Zeros(rw * rh)
    IN Image(data, rw, rh)

\* ------------------------------------------------------------------ claims
\* C1: when the compute pass of a call runs, the uniform buffer holds
\* (input width, input height, template width, template height) of that
\* call's input and template.
C1_UniformMatchesCall ==
    last_pass.some =>
        last_pass.uniforms = <<last_pass.call.input.width,
                               last_pass.call.input.height,
                               last_pass.call.template.width,
                               last_pass.call.template.height>>

\* C2: the surface returned after a call has width input.width -
\* template.width + 1, height input.height - template.height + 1 and
\* width * height samples, whether the mapping succeeded or failed.
C2_ResultSize ==
    ret.some =>
        /\ ret.image.width = ret.call.input.width - ret.call.template.width + 1
        /\ ret.image.height = ret.call.input.height - ret.call.template.height + 1
        /\ Len(ret.image.data) = ret.image.width * ret.image.height

C2_Witness ==
    /\ ret.some
    /\ ret.map_ok
    /\ ~dims_stable
    /\ ret.image.width = 2
    /\ ret.image.height = 1

\* C3: a second match_template without a wait_for_result in between discards
\* the first result: at most one result is ever outstanding, the surface the
\* next wait_for_result returns is the output of the latest call's compute
\* pass with that call's result dimensions, and a further wait_for_result
\* returns None.
C3_DiscardSemantics ==
    /\ [](Len(outstanding) <= 1)
    /\ [](ret.some =>
            /\ ret.call = call
            /\ ret.image.width = call.input.width - call.template.width + 1
            /\ ret.image.height = call.input.height - call.template.height + 1
            /\ ret.map_ok =>
                  /\ last_pass.some
                  /\ last_pass.call = call
                  /\ ret.image.data = last_pass.output)
    /\ [][(ret.some /\ last_op' \in {"wait_none", "wait_begin"}) =>
             (last_op' = "wait_none" /\ ret' = None)]_vars

C3_Witness ==
    /\ ret.some
    /\ ret.map_ok
    /\ ret.call.discarded
    /\ ~dims_stable
    /\ ret.image.width = 2
    /\ ret.image.height = 1
    /\ ret.image.data = last_pass.output

\* C4: wait_for_result returns None exactly when no match_template was called
\* since construction or since the last wait_for_result, and then it requests
\* no mapping, does not poll and changes no field of the matcher.
C4_NoneIsNoOp ==
    [][(pc = "idle" /\ last_op' \in {"wait_none", "wait_begin"}) =>
          /\ (last_op' = "wait_none") <=> (outstanding = <<>>)
          /\ (last_op' = "wait_none") =>
                /\ ret' = None
                /\ pc' = "idle"
                /\ UNCHANGED <<fields, device>>]_vars

C4_Witness ==
    /\ last_op = "wait_none"
    /\ input_buffer # NoBuffer
    /\ ~matching_ongoing

\* C5: while every call on a matcher has the same input and template
\* dimensions, each retrieved surface equals what a fresh matcher returns for
\* that call, and the compute pass reads exactly that call's samples.
C5_ReuseSameDims ==
    /\ (ret.some /\ dims_stable) => ret.image = FreshImage(ret.call, ret.map_ok)
    /\ (last_pass.some /\ dims_stable) =>
          /\ last_pass.input = last_pass.call.input.data
          /\ last_pass.template = last_pass.call.template.data

C5_Witness ==
    /\ ret.some
    /\ ret.map_ok
    /\ dims_stable
    /\ ret.call.resampled
    /\ \E k \in 1..Len(ret.image.data) : ret.image.data[k] # 0

\* C6: on a reused matcher whose input dimensions, template dimensions and
\* method may change from round to round, each retrieved surface equals what
\* the one-shot match_template returns for that round's arguments.
C6_ReuseAnyDims ==
    ret.some => ret.image = FreshImage(ret.call, ret.map_ok)

\* C7: match_template builds a pipeline exactly when none is cached or the
\* cached method differs from the requested one, otherwise it leaves pipeline
\* and remembered method alone; the pipeline a pass runs with is the one of
\* the requested method's entry point.
C7_PipelineCache ==
    /\ [][(last_op' = "match_template") =>
            /\ ("pipeline" \in created')
                  <=> (last_pipeline = NoPipeline \/ last_method # call'.method)
            /\ ("pipeline" \notin created') =>
                  UNCHANGED <<last_pipeline, last_method>>
            /\ last_method' = call'.method
            /\ last_pipeline' = (IF call'.method = "SumOfAbsoluteDifferences"
                                 THEN "main_sad" ELSE "main_ssd")]_vars
    /\ [](last_pass.some =>
            last_pass.entry_point =
                (IF last_pass.call.method = "SumOfAbsoluteDifferences"
                 THEN "main_sad" ELSE "main_ssd"))

C7_Witness ==
    /\ last_op = "match_template"
    /\ created = {"pipeline"}
    /\ last_method = "SumOfSquaredDifferences"

\* The commands of q that write data into buffer b.
WritesTo(q, b, data) ==
    {k \in 1..Len(q) : q[k].op = "write" /\ q[k].buf = b /\ q[k].data = data}

\* C8: match_template allocates the input buffer exactly when none exists or
\* the input's size differs from the remembered one, otherwise it keeps the
\* buffer and only uploads into it; the template buffer follows the same rule
\* on its own size, independently of the input buffer.
C8_BufferReuse ==
    [][(last_op' = "match_template") =>
          /\ ("input_buffer" \in created')
                <=> (input_buffer = NoBuffer
                     \/ last_input_size # <<call'.input.width, call'.input.height>>)
          /\ ("input_buffer" \notin created') =>
                /\ mem'[input_buffer'] = mem[input_buffer]
                /\ WritesTo(queue', input_buffer', call'.input.data) # {}
          /\ ("template_buffer" \in created')
                <=> (template_buffer = NoBuffer
                     \/ last_template_size
                          # <<call'.template.width, call'.template.height>>)
          /\ ("template_buffer" \notin created') =>
                /\ mem'[template_buffer'] = mem[template_buffer]
                /\ WritesTo(queue', template_buffer', call'.template.data) # {}]_vars

C8_Witness ==
    /\ last_op = "match_template"
    /\ "input_buffer" \in created
    /\ "template_buffer" \notin created
    /\ WritesTo(queue, template_buffer, call.template.data) # {}

\* C9: match_template re-creates the result buffer, the staging buffer and
\* the bind group, and updates the remembered result size, exactly when it
\* rebuilt the input buffer or the template buffer; otherwise all four are
\* left as they were.
C9_DependentResources ==
    [][(last_op' = "match_template") =>
          LET rebuilt == "input_buffer" \in created' \/ "template_buffer" \in created'
              dependent == {"result_buffer", "staging_buffer", "bind_group"}
          IN /\ rebuilt => /\ dependent \subseteq created'
                           /\ last_result_size' =
                                <<call'.input.width - call'.template.width + 1,
                                  call'.input.height - call'.template.height + 1>>
             /\ ~rebuilt => /\ dependent \cap created' = {}
                            /\ UNCHANGED <<last_result_size, bind_group,
                                           result_buffer, staging_buffer>>
                            /\ mem'[result_buffer'] = mem[result_buffer]
                            /\ mem'[staging_buffer'] = mem[staging_buffer]]_vars

C9_Witness ==
    /\ last_op = "match_template"
    /\ created = {}
    /\ call.resampled

\* C10: when the mapping of the staging buffer fails, wait_for_result returns
\* a surface of the expected result dimensions whose samples are all 0; and
\* the outstanding flag is false when wait_for_result returns, whether the
\* mapping succeeded or failed.
C10_MapFailure ==
    /\ (ret.some /\ ~ret.map_ok) =>
          /\ ret.image.width = ret.call.input.width - ret.call.template.width + 1
          /\ ret.image.height =
                ret.call.input.height - ret.call.template.height + 1
          /\ Len(ret.image.data) = ret.image.width * ret.image.height
          /\ \A k \in 1..Len(ret.image.data) : ret.image.data[k] = 0
    /\ last_op \in {"wait_return", "discard_return"} => ~matching_ongoing

C10_Witness ==
    /\ ret.some
    /\ ~ret.map_ok
    /\ last_op = "wait_return"
    /\ ret.image.width = 2
    /\ ret.image.height = 1
    /\ last_pass.some
    /\ \E k \in 1..Len(last_pass.output) : last_pass.output[k] # 0

\* C11: for every non-empty surface find_extremes returns the smallest and the
\* largest sample, each with the (x, y) of the first position in row-major
\* order (y outer, x inner) at which that value occurs.
FirstAt(input, v) ==
    LET k == Min({i \in 1..Len(input.data) : input.data[i] = v}) - 1
    IN <<k % input.width, k \div input.width>>

C11_Extremes ==
    fn_ret.some =>
        LET values == {fn_arg.data[i] : i \in 1..Len(fn_arg.data)}
            lo == Min(values)
            hi == -Min({-v : v \in values})
            e == fn_ret.extremes
        IN /\ e.min_value = lo
           /\ e.max_value = hi
           /\ e.min_value_location = FirstAt(fn_arg, lo)
           /\ e.max_value_location = FirstAt(fn_arg, hi)

\* C12 as stated: match_template never waits for device work, whatever the
\* state of the matcher: no call of it is ever inside device.poll.
C12_NeverWaits == ~(pc = "poll" /\ pending)

\* C12, amended: match_template enters device.poll only when a result is
\* outstanding at the call (to retrieve and drop it); it never waits for the
\* work it submits itself: when it returns the host is idle, the flag is set
\* and its compute pass and copy are the last two commands still queued.
C12_WaitsOnlyToDiscard ==
    [][/\ (pending' /\ ~pending) => matching_ongoing
       /\ (~pending /\ pc = "idle" /\ ~matching_ongoing) => pc' # "in_match"
       /\ last_op' = "match_template" =>
             /\ pc' = "idle"
             /\ matching_ongoing'
             /\ map_state' = "unmapped"
             /\ Len(queue') >= Len(queue) + 2
             /\ queue'[Len(queue') - 1].op = "compute"
             /\ queue'[Len(queue') - 1].call = call'
             /\ queue'[Len(queue')].op = "copy"
             /\ queue'[Len(queue')].call = call']_vars

C12_Witness ==
    /\ last_op = "match_template"
    /\ call.some
    /\ call.discarded
    /\ matching_ongoing
    /\ Len(queue) >= 2
    /\ queue[Len(queue)].call = call

\* the compute pass and the copy of one call are adjacent in the queue, pass
\* first, with no upload of a later call between or before them
BatchOrder ==
    /\ \A i \in 1..Len(queue) :
          queue[i].op = "compute" =>
             /\ i + 1 = Len(queue)
             /\ queue[i + 1].op = "copy"
             /\ queue[i + 1].call = queue[i].call
             /\ queue[i].call = call
    /\ (queue # <<>> /\ Head(queue).op = "copy") =>
          /\ Len(queue) = 1
          /\ last_pass.some
          /\ last_pass.call = Head(queue).call

\* the compute pass of a call read the samples that call uploaded
PassReadsOwnSamples ==
    last_pass.some =>
        /\ last_pass.call = call
        /\ last_pass.input = call.input.data
        /\ last_pass.template = call.template.data

\* C13: uploads and batches take effect in call order: the compute pass of a
\* call reads the input, template and uniform contents of that same call, and
\* the copy of a call runs after its pass and before any later call's write.
C13_DeviceOrder ==
    /\ BatchOrder
    /\ PassReadsOwnSamples
    /\ last_pass.some => last_pass.uniforms = Dims(call.input, call.template)

\* C14: the dispatched grid is ceiling(result_width / 16) by
\* ceiling(result_height / 16) by 1 for every result size, so that the 16x16
\* tiles cover every output coordinate.
CeilDiv(n, d) == (n + d - 1) \div d

C14_GridIsCeiling ==
    fn_ret.some =>
        /\ fn_ret.grid = <<CeilDiv(fn_arg[1], WorkgroupSize),
                           CeilDiv(fn_arg[2], WorkgroupSize), 1>>
        /\ fn_ret.grid[1] * WorkgroupSize >= fn_arg[1]
        /\ fn_ret.grid[2] * WorkgroupSize >= fn_arg[2]

\* C15: for every result size the byte size of the result buffer, the staging
\* buffer and the copy is result_width * result_height * 4 with no wrap-around
\* or overflow in the product, and the zero-filled fallback surface has
\* result_width * result_height samples.
C15_SizesExact ==
    fn_ret.some =>
        /\ ~fn_ret.panicked
        /\ fn_ret.result_buf_size % SizeOfF32 = 0
        /\ fn_ret.result_buf_size \div SizeOfF32 = fn_arg[1] * fn_arg[2]
        /\ fn_ret.fallback_len = fn_arg[1] * fn_arg[2]

\* C16: with a fair device every wait_for_result that entered device.poll
\* eventually returns, and it never returns before the mapping callback has
\* delivered success or failure.
C16_WaitReturns ==
    /\ (pc = "poll") ~> (pc # "poll")
    /\ [][(pc = "poll" /\ pc' # "poll") =>
            /\ map_state \in {"mapped", "failed"}
            /\ queue = <<>>]_vars

C16_Witness ==
    /\ last_op = "wait_return"
    /\ ret.some
    /\ ret.map_ok
    /\ ~ret.call.discarded
    /\ pc = "idle"
    /\ map_state = "unmapped"

\* C17: whenever a bind group exists it references the current input buffer
\* at binding 0, the current template buffer at binding 1, the current result
\* buffer at binding 2 and the uniform buffer at binding 3, and every
\* submitted compute pass uses that bind group, never one that points at a
\* buffer that has been replaced.
CurrentBindings ==
    [b0 |-> input_buffer, b1 |-> template_buffer, b2 |-> result_buffer,
     b3 |-> UniformId]

C17_BindGroupCurrent ==
    /\ bind_group # NoBindGroup =>
          /\ bind_group = CurrentBindings
          /\ NoBuffer \notin {input_buffer, template_buffer, result_buffer}
          /\ Cardinality({input_buffer, template_buffer, result_buffer,
                          staging_buffer}) = 4
    /\ \A i \in 1..Len(queue) :
          queue[i].op = "compute" =>
             /\ queue[i].bind_group # NoBindGroup
             /\ queue[i].bind_group = CurrentBindings

\* a pass is queued on buffers of which only the input buffer was replaced by
\* the call that queued it
C17_Witness ==
    /\ last_op = "match_template"
    /\ created = {"input_buffer", "result_buffer", "staging_buffer", "bind_group"}
    /\ \E i \in 1..Len(queue) :
          /\ queue[i].op = "compute"
          /\ queue[i].bind_group = CurrentBindings

\* C18: the staging buffer is neither mapped nor has a mapping request pending
\* when a batch copying into it is submitted: every wait_for_result leaves it
\* unmapped when it returns, and match_template submits only after an
\* outstanding result has been retrieved and dropped.
C18_StagingUnmappedAtSubmit ==
    [][/\ (pc = "poll" /\ pc' # "poll") => map_state' = "unmapped"
       /\ last_op' = "match_template" =>
             /\ map_state = "unmapped"
             /\ map_state' = "unmapped"
             /\ ~matching_ongoing
             /\ outstanding = <<>>
             /\ queue'[Len(queue')].op = "copy"
             /\ queue'[Len(queue')].dst = staging_buffer']_vars

\* a batch is submitted that copies into the staging buffer the discarded
\* retrieval had mapped
C18_Witness ==
    /\ last_op = "match_template"
    /\ call.discarded
    /\ created = {}
    /\ map_state = "unmapped"
    /\ queue[Len(queue)].op = "copy"
    /\ queue[Len(queue)].dst = staging_buffer

\* C19: a match_template call whose template is larger than the input in
\* width or height is not carried out as a dispatch and leaves the cache as
\* it was: remembered sizes, buffers, bind group and outstanding flag.
Unfit(c) ==
    c.template.width > c.input.width \/ c.template.height > c.input.height

C19_UnfitCallRejected ==
    [][(/\ last_op' \in {"match_template", "match_template_panic"}
        /\ call'.some
        /\ Unfit(call')) =>
            /\ created' \subseteq {"pipeline"}
            /\ queue' = queue
            /\ UNCHANGED <<last_input_size, last_template_size,
                           last_result_size, input_buffer, template_buffer,
                           result_buffer, staging_buffer, bind_group,
                           matching_ongoing>>]_vars

\* C20: while a result is outstanding the pipeline, the four buffers and the
\* bind group all exist, and the remembered result size is (remembered input
\* width - remembered template width + 1, remembered input height -
\* remembered template height + 1) and is the size of the staging buffer.
C20_OutstandingImpliesResources ==
    matching_ongoing =>
        /\ last_pipeline # NoPipeline
        /\ NoBuffer \notin {input_buffer, template_buffer, result_buffer,
                             staging_buffer}
        /\ {input_buffer, template_buffer, result_buffer, staging_buffer}
              \subseteq DOMAIN mem
        /\ bind_group # NoBindGroup
        /\ last_result_size =
              <<last_input_size[1] - last_template_size[1] + 1,
                last_input_size[2] - last_template_size[2] + 1>>
        /\ Len(mem[staging_buffer]) = last_result_size[1] * last_result_size[2]
        /\ Len(mem[result_buffer]) = last_result_size[1] * last_result_size[2]

\* a result is outstanding on buffers of more than one sample, after the
\* sizes changed between calls
C20_Witness ==
    /\ matching_ongoing
    /\ ~dims_stable
    /\ last_result_size = <<2, 1>>
    /\ Len(mem[staging_buffer]) = 2

====
